---- MODULE Spec2Model ----
(***************************************************************************)
(* Attendance report generator (src/streamlit_app.py).                     *)
(*                                                                         *)
(* Text is a sequence of one-character strings.  A Python value held in a  *)
(* DataFrame cell or passed to a function is a record [t, v]:              *)
(*   t = "str"  a str, v its characters                                    *)
(*   t = "num"  an int64/float64 number, v its decimal digits              *)
(*   t = "nan"  the float NaN pandas uses for a missing value, v = <<>>    *)
(* A float that round(x, 2) produced is held as its integer number of      *)
(* hundredths (9.0 is 900).                                                *)
(***************************************************************************)
EXTENDS Integers, Sequences, FiniteSets, TLC

\* ------------------------------------------------------------------ text

Digits == <<"0", "1", "2", "3", "4", "5", "6", "7", "8", "9">>

IsDigit(c) == \E i \in 1..10 : Digits[i] = c

DigitVal(c) == (CHOOSE i \in 1..10 : Digits[i] = c) - 1

IsSpace(c) == c = " "

Str(s) == [t |-> "str", v |-> s]

NaN == [t |-> "nan", v |-> <<>>]

Num(s) == [t |-> "num", v |-> s]

\* isinstance(x, str)
IsStr(x) == x.t = "str"

\* pd.notna(x) / Series.notna()
notna(x) == x.t # "nan"

\* str(x) / Series.astype(str): a str is itself, NaN prints as 'nan'
astype_str(x) == IF x.t = "nan" THEN <<"n", "a", "n">> ELSE x.v

RECURSIVE lstrip(_)
lstrip(s) == IF s # <<>> /\ IsSpace(Head(s)) THEN lstrip(Tail(s)) ELSE s

RECURSIVE rstrip(_)
rstrip(s) ==
    IF s # <<>> /\ IsSpace(s[Len(s)]) THEN rstrip(SubSeq(s, 1, Len(s) - 1)) ELSE s

\* str.strip()
strip(s) == rstrip(lstrip(s))

\* s.startswith(p) at offset i (1-based)
MatchAt(s, p, i) ==
    /\ i + Len(p) - 1 <= Len(s)
    /\ \A k \in 1..Len(p) : s[i + k - 1] = p[k]

\* Series.str.contains(p) for a pattern without regex metacharacters
contains(s, p) == \E i \in 1..(Len(s) + 1) : MatchAt(s, p, i)

\* Series.str.replace("^'", "", regex=True)
replace_leading_apostrophe(s) == IF s # <<>> /\ Head(s) = "'" THEN Tail(s) ELSE s

\* str.split(':')
RECURSIVE split(_)
split(s) ==
    IF \A i \in 1..Len(s) : s[i] # ":"
    THEN <<s>>
    ELSE LET i == CHOOSE j \in 1..Len(s) :
                     s[j] = ":" /\ \A k \in 1..(j - 1) : s[k] # ":"
         IN  <<SubSeq(s, 1, i - 1)>> \o split(SubSeq(s, i + 1, Len(s)))

RECURSIVE DigitsVal(_)
DigitsVal(s) ==
    IF s = <<>> THEN 0
    ELSE 10 * DigitsVal(SubSeq(s, 1, Len(s) - 1)) + DigitVal(s[Len(s)])

\* int() that reads a text without digits as 0 instead of raising
int_lenient(s) ==
    LET u    == strip(s)
        sgn  == u # <<>> /\ Head(u) \in {"-", "+"}
        body == IF sgn THEN Tail(u) ELSE u
        good == body # <<>> /\ \A i \in 1..Len(body) : IsDigit(body[i])
    IN  IF ~good THEN [ok |-> TRUE, n |-> 0]
        ELSE [ok |-> TRUE,
              n  |-> IF sgn /\ Head(u) = "-" THEN 0 - DigitsVal(body)
                     ELSE DigitsVal(body)]

\* int(s): surrounding whitespace is ignored, one optional sign, then one or
\* more decimal digits; anything else raises ValueError (ok = FALSE)
int(s) ==
    LET u    == strip(s)
        sgn  == u # <<>> /\ Head(u) \in {"-", "+"}
        body == IF sgn THEN Tail(u) ELSE u
        good == body # <<>> /\ \A i \in 1..Len(body) : IsDigit(body[i])
    IN  IF ~good THEN [ok |-> FALSE, n |-> 0]
        ELSE [ok |-> TRUE,
              n  |-> IF sgn /\ Head(u) = "-" THEN 0 - DigitsVal(body)
                     ELSE DigitsVal(body)]

RECURSIVE NatToStr(_)
NatToStr(n) ==
    IF n < 10 THEN <<Digits[n + 1]>>
    ELSE NatToStr(n \div 10) \o <<Digits[(n % 10) + 1]>>

\* f"{n:02d}": sign-aware zero padding to width 2
Fmt02d(n) ==
    IF n < 0 THEN <<"-">> \o NatToStr(0 - n)
    ELSE IF n < 10 THEN <<"0">> \o NatToStr(n)
    ELSE NatToStr(n)

\* ------------------------------------------------------- float rounding

RECURSIVE Pow2Mod(_, _)
Pow2Mod(s, m) == IF s = 0 THEN 1 % m ELSE (2 * Pow2Mod(s - 1, m)) % m

RECURSIVE Pow2(_)
Pow2(k) == IF k = 0 THEN 1 ELSE 2 * Pow2(k - 1)

\* floor(log2(N / 200)) for N >= 1: the binary exponent of the double N/200
RECURSIVE ExpUp(_, _)
ExpUp(N, e) == IF 200 * Pow2(e + 1) <= N THEN ExpUp(N, e + 1) ELSE e

RECURSIVE ExpDown(_, _)
ExpDown(N, k) == IF N * Pow2(k) < 200 THEN ExpDown(N, k + 1) ELSE 0 - k

BinExp200(N) == IF N >= 200 THEN ExpUp(N, 0) ELSE ExpDown(N, 1)

\* round(d / 3600, 2) for d >= 0, in hundredths.  d / 3600 is a correctly
\* rounded double and round() rounds that double's exact value to the
\* nearest hundredth, an exact tie going to the even hundredth.  d / 36 is
\* at least 1/36 away from a tie unless d % 36 = 18; then d / 3600 is
\* N / 200 with N = 2q + 1, which is a double only if 25 divides N, and is
\* otherwise stored as the nearest 53-bit mantissa, below N / 200 when
\* (N * 2^s) mod 200 < 100 and above it when that remainder is > 100
\* (s = 52 - exponent).
round2_nonneg(d) ==
    LET q == d \div 36
        r == d % 36
        N == 2 * q + 1
        s == 52 - BinExp200(N)
        rem == (N * Pow2Mod(s, 200)) % 200
    IN  IF r < 18 THEN q
        ELSE IF r > 18 THEN q + 1
        ELSE IF N % 25 = 0 THEN (IF q % 2 = 0 THEN q ELSE q + 1)
        ELSE IF rem < 100 THEN q
        ELSE q + 1

\* hours cut to two decimals instead of rounded
round_hours_truncating(d) == (100 * d) \div 3600

\* round(diff_seconds / 3600, 2), in hundredths
round_hours(d) == IF d < 0 THEN 0 - round2_nonneg(0 - d) ELSE round2_nonneg(d)

\* ------------------------------------------------------ time arithmetic

ZeroResult == [hours |-> 0, fmt |-> <<"0", "0", ":", "0", "0", ":", "0", "0">>]

\* calculate_hours(check_in, check_out) -> (hours in hundredths, HH:MM:SS)
calculate_hours(check_in, check_out) ==
    IF ~IsStr(check_in) \/ ~IsStr(check_out) THEN ZeroResult
    ELSE IF \/ check_in.v = <<"-">> \/ check_out.v = <<"-">>
            \/ check_in.v = <<>> \/ check_out.v = <<>> THEN ZeroResult
    ELSE LET in_parts  == split(check_in.v)
             out_parts == split(check_out.v)
         IN  IF Len(in_parts) < 2 \/ Len(out_parts) < 2 THEN ZeroResult
             ELSE
             LET ih == int(in_parts[1])
                 im == int(in_parts[2])
                 is == IF Len(in_parts) > 2 THEN int(in_parts[3])
                       ELSE [ok |-> TRUE, n |-> 0]
                 oh == int(out_parts[1])
                 om == int(out_parts[2])
                 os == IF Len(out_parts) > 2 THEN int(out_parts[3])
                       ELSE [ok |-> TRUE, n |-> 0]
             IN  IF ~(ih.ok /\ im.ok /\ is.ok /\ oh.ok /\ om.ok /\ os.ok)
                 THEN ZeroResult      \* ValueError caught by the bare except
                 ELSE
                 LET total_in_seconds  == ih.n * 3600 + im.n * 60 + is.n
                     total_out_seconds == oh.n * 3600 + om.n * 60 + os.n
                     diff_seconds == total_out_seconds - total_in_seconds
                     hours   == diff_seconds \div 3600
                     minutes == (diff_seconds % 3600) \div 60
                     seconds == diff_seconds % 60
                 IN  [hours |-> round_hours(diff_seconds),
                      fmt   |-> Fmt02d(hours) \o <<":">> \o Fmt02d(minutes)
                                \o <<":">> \o Fmt02d(seconds)]

\* calculate_total_minutes(hours) = round(hours * 60).  hours is a multiple
\* of 0.01, so hours * 60 is within float error of a multiple of 0.2 and is
\* never near a tie: the result is the nearest integer to 6 * h100 / 10.
calculate_total_minutes(h100) == (6 * h100 + 5) \div 10

standard_minutes == 540

calculate_extra_minutes(total_minutes) ==
    IF total_minutes <= standard_minutes THEN 0
    ELSE total_minutes - standard_minutes

\* ------------------------------------------------------------- calendar

IsLeap(y) == (y % 4 = 0 /\ y % 100 # 0) \/ y % 400 = 0

DaysInMonth(y, m) ==
    IF m = 2 THEN (IF IsLeap(y) THEN 29 ELSE 28)
    ELSE IF m \in {4, 6, 9, 11} THEN 30 ELSE 31

NaT == [nat |-> TRUE, y |-> 0, m |-> 0, d |-> 0]

\* A date text parsed as year-month-day.  The model's inputs are either in
\* the form YYYY-MM-DD or no date in any format, and for both
\* datetime.strptime(s, '%Y-%m-%d') and pd.to_datetime(errors='coerce')
\* agree: the first kind parses when the day exists, the second does not.
ParseDate(x) ==
    LET s == x.v
        wellformed ==
            /\ IsStr(x)
            /\ Len(s) = 10
            /\ s[5] = "-" /\ s[8] = "-"
            /\ \A i \in {1, 2, 3, 4, 6, 7, 9, 10} : IsDigit(s[i])
        y == DigitsVal(SubSeq(s, 1, 4))
        m == DigitsVal(SubSeq(s, 6, 7))
        d == DigitsVal(SubSeq(s, 9, 10))
    IN  IF wellformed /\ y >= 1 /\ m \in 1..12 /\ d >= 1 /\ d <= DaysInMonth(y, m)
        THEN [nat |-> FALSE, y |-> y, m |-> m, d |-> d]
        ELSE NaT

DayNames == <<"Sunday", "Monday", "Tuesday", "Wednesday", "Thursday",
              "Friday", "Saturday">>

MonthOffset == <<0, 3, 2, 5, 0, 3, 5, 1, 4, 6, 2, 4>>

\* get_day_of_week(date_str): '%A' of the parsed date, "" when strptime raises
get_day_of_week(x) ==
    LET ts == ParseDate(x)
        y  == IF ts.m < 3 THEN ts.y - 1 ELSE ts.y
    IN  IF ts.nat THEN ""
        ELSE DayNames[((y + y \div 4 - y \div 100 + y \div 400
                        + MonthOffset[ts.m] + ts.d) % 7) + 1]

\* Series.dt.strftime('%Y-%m-%d'): NaT becomes a missing value
strftime(ts) ==
    IF ts.nat THEN NaN
    ELSE Str(NatToStr(ts.y \div 1000) \o NatToStr((ts.y \div 100) % 10)
             \o NatToStr((ts.y \div 10) % 10) \o NatToStr(ts.y % 10)
             \o <<"-">> \o Fmt02d(ts.m) \o <<"-">> \o Fmt02d(ts.d))

\* ------------------------------------------------------------ directory

\* get_employee_database(): the embedded CSV as read by pd.read_csv (the
\* Person ID column mixes numbers and text, so every present value is a str)
db_df == <<
    [Person_ID |-> Str(<<"1", "0", "0", "0">>), Employee_ID |-> Str(<<"1", "0", "0", "0">>),
     Employee_Name |-> "THASLEEM VP", Department |-> "COO"],
    [Person_ID |-> Str(<<"1", "0", "0", "1">>), Employee_ID |-> Str(<<"1", "0", "0", "1">>),
     Employee_Name |-> "SHABIL CHAKKOLAYIL", Department |-> "CSO"],
    [Person_ID |-> Str(<<"S", "0", "0", "3">>), Employee_ID |-> Str(<<"T", "T", "Q", "A", "0", "0", "3">>),
     Employee_Name |-> "Abdul Shifas", Department |-> "Pre-Sales"],
    [Person_ID |-> Str(<<"S", "0", "0", "4">>), Employee_ID |-> Str(<<"T", "T", "Q", "A", "0", "0", "4">>),
     Employee_Name |-> "Shameer Chundekattil Abu", Department |-> "Technical"],
    [Person_ID |-> Str(<<"S", "0", "0", "6">>), Employee_ID |-> Str(<<"T", "T", "Q", "A", "0", "0", "6">>),
     Employee_Name |-> "Shyamraj Sasidharan", Department |-> "Pre-Sales"],
    [Person_ID |-> Str(<<"S", "0", "0", "7">>), Employee_ID |-> Str(<<"T", "T", "Q", "A", "0", "0", "7">>),
     Employee_Name |-> "Jobin Therath Joseph", Department |-> "Technical"],
    [Person_ID |-> Str(<<"S", "0", "1", "2">>), Employee_ID |-> Str(<<"T", "T", "Q", "A", "0", "1", "2">>),
     Employee_Name |-> "Maneesh Mani Koroththazha", Department |-> "Procurement"],
    [Person_ID |-> Str(<<"S", "0", "2", "1">>), Employee_ID |-> Str(<<"T", "T", "Q", "A", "0", "2", "1">>),
     Employee_Name |-> "Kishanthan Thiyagarajan", Department |-> "Technical"],
    [Person_ID |-> Str(<<"S", "0", "2", "7">>), Employee_ID |-> Str(<<"T", "T", "Q", "A", "0", "2", "7">>),
     Employee_Name |-> "Anoop Aniyan", Department |-> "Finance and Accounts"],
    [Person_ID |-> NaN, Employee_ID |-> Str(<<"T", "T", "Q", "A", "0", "4", "0">>),
     Employee_Name |-> "Surendran Vinayagam Surendran", Department |-> "Technical"],
    [Person_ID |-> Str(<<"S", "0", "4", "2">>), Employee_ID |-> Str(<<"T", "T", "Q", "A", "0", "4", "2">>),
     Employee_Name |-> "Shuhaib Muhammed Kutty", Department |-> "Human Resources and Admin."],
    [Person_ID |-> Str(<<"S", "0", "8", "8">>), Employee_ID |-> Str(<<"T", "T", "Q", "A", "0", "8", "8">>),
     Employee_Name |-> "Ratheesh Ittikkatt Velayudhan", Department |-> "Procurement"],
    [Person_ID |-> Str(<<"S", "1", "0", "1">>), Employee_ID |-> Str(<<"T", "T", "Q", "A", "1", "0", "1">>),
     Employee_Name |-> "Jishnu Neriathraparambil Shibu", Department |-> "Technical"],
    [Person_ID |-> Str(<<"S", "1", "1", "8">>), Employee_ID |-> Str(<<"T", "T", "Q", "A", "1", "1", "8">>),
     Employee_Name |-> "Mohammed Nasfer Valoth", Department |-> "Renewals - Licensing"],
    [Person_ID |-> Str(<<"S", "1", "2", "4">>), Employee_ID |-> Str(<<"T", "T", "Q", "A", "1", "2", "4">>),
     Employee_Name |-> "Shamsudheen Kalli Kuniyil", Department |-> "Human Resources and Admin."],
    [Person_ID |-> Str(<<"S", "1", "4", "6">>), Employee_ID |-> Str(<<"T", "T", "Q", "A", "1", "4", "6">>),
     Employee_Name |-> "Muhammad Farash Kunhippurayil", Department |-> "Technical"],
    [Person_ID |-> Str(<<"S", "1", "5", "1">>), Employee_ID |-> Str(<<"T", "T", "Q", "A", "1", "5", "1">>),
     Employee_Name |-> "Mohammed Ali Chelathoden Latif", Department |-> "Pre-Sales"],
    [Person_ID |-> Str(<<"S", "1", "6", "0">>), Employee_ID |-> Str(<<"T", "T", "Q", "A", "1", "6", "0">>),
     Employee_Name |-> "Asharaf Naranath", Department |-> "Finance and Accounts"],
    [Person_ID |-> Str(<<"S", "1", "7", "1">>), Employee_ID |-> Str(<<"T", "T", "Q", "A", "1", "7", "1">>),
     Employee_Name |-> "Nabil Jamal Vettikkal", Department |-> "Sales"],
    [Person_ID |-> Str(<<"S", "1", "7", "3">>), Employee_ID |-> Str(<<"T", "T", "Q", "A", "1", "7", "3">>),
     Employee_Name |-> "Sreelaskshmi Pottekkatt Sudhi", Department |-> "Marketing"],
    [Person_ID |-> Str(<<"S", "1", "7", "4">>), Employee_ID |-> Str(<<"T", "T", "Q", "A", "1", "7", "4">>),
     Employee_Name |-> "Irfan Kottukkal Ismail", Department |-> "Support"],
    [Person_ID |-> Str(<<"T", "T", "Q", "2", "0", "0">>), Employee_ID |-> Str(<<"T", "T", "Q", "A", "2", "0", "0">>),
     Employee_Name |-> "Basheer Andanakathu Moidunni", Department |-> "Human Resources and Admin."],
    [Person_ID |-> Str(<<"S", "1", "0", "2">>), Employee_ID |-> Str(<<"T", "T", "Q", "A", "2", "0", "1">>),
     Employee_Name |-> "Sumesh K Sami", Department |-> "Design & Lighting"],
    [Person_ID |-> Str(<<"S", "2", "0", "3">>), Employee_ID |-> Str(<<"T", "T", "Q", "A", "2", "0", "3">>),
     Employee_Name |-> "Muhammad Musthafa", Department |-> "Pre-Sales"],
    [Person_ID |-> Str(<<"S", "2", "0", "6">>), Employee_ID |-> Str(<<"T", "T", "Q", "A", "2", "0", "7">>),
     Employee_Name |-> "Niyas Vayalil Muhammad Ismail", Department |-> "Human Resources and Admin."],
    [Person_ID |-> Str(<<"S", "2", "2", "1">>), Employee_ID |-> Str(<<"T", "T", "Q", "A", "2", "2", "1">>),
     Employee_Name |-> "Muhammad Hassan Malik", Department |-> "Technical"],
    [Person_ID |-> Str(<<"T", "T", "Q", "2", "1", "9">>), Employee_ID |-> Str(<<"T", "T", "Q", "A", "2", "2", "4">>),
     Employee_Name |-> "Kirusanth Velayutham Anandarasa", Department |-> "Technical"],
    [Person_ID |-> Str(<<"S", "2", "2", "5">>), Employee_ID |-> Str(<<"T", "T", "Q", "A", "2", "2", "5">>),
     Employee_Name |-> "Varun Puthan Purayil", Department |-> "Technical"],
    [Person_ID |-> Str(<<"T", "T", "Q", "2", "2", "6">>), Employee_ID |-> Str(<<"T", "T", "Q", "A", "2", "2", "6">>),
     Employee_Name |-> "Yadhu Krishnan", Department |-> "Design & Lighting"],
    [Person_ID |-> Str(<<"S", "2", "1", "4">>), Employee_ID |-> Str(<<"T", "T", "Q", "A", "2", "4", "4">>),
     Employee_Name |-> "Pranav Ponath Uthaman", Department |-> "Design & Lighting"],
    [Person_ID |-> Str(<<"Q", "A", "2", "4", "8">>), Employee_ID |-> Str(<<"T", "T", "Q", "A", "2", "4", "8">>),
     Employee_Name |-> "Muhammed Ali Jawahar Shajahan Naseela", Department |-> "Support"],
    [Person_ID |-> Str(<<"Q", "A", "2", "5", "0">>), Employee_ID |-> Str(<<"T", "T", "Q", "A", "2", "5", "0">>),
     Employee_Name |-> "Muhammad Abid Nasir", Department |-> "Renewals - Licensing"],
    [Person_ID |-> Str(<<"S", "2", "5", "1">>), Employee_ID |-> Str(<<"T", "T", "Q", "A", "2", "5", "1">>),
     Employee_Name |-> "Shabin Ashif N. Parambil", Department |-> "Human Resources and Admin."],
    [Person_ID |-> Str(<<"T", "T", "Q", "2", "5", "2">>), Employee_ID |-> Str(<<"T", "T", "Q", "A", "2", "5", "2">>),
     Employee_Name |-> "Nidhisha Chandran", Department |-> "Finance and Accounts"],
    [Person_ID |-> Str(<<"T", "T", "Q", "2", "5", "3">>), Employee_ID |-> Str(<<"T", "T", "Q", "A", "2", "5", "3">>),
     Employee_Name |-> "Mohamad Kawwam", Department |-> "Marketing"],
    [Person_ID |-> Str(<<"T", "T", "Q", "2", "5", "4">>), Employee_ID |-> Str(<<"T", "T", "Q", "A", "2", "5", "4">>),
     Employee_Name |-> "Rafiyath Rafeeque Moidu", Department |-> "Pre-Sales"],
    [Person_ID |-> Str(<<"T", "T", "Q", "2", "5", "5">>), Employee_ID |-> Str(<<"T", "T", "Q", "A", "2", "5", "5">>),
     Employee_Name |-> "Mudhasar Olavakkott S", Department |-> "Support"],
    [Person_ID |-> Str(<<"T", "T", "Q", "2", "6", "3">>), Employee_ID |-> Str(<<"T", "T", "Q", "A", "2", "6", "3">>),
     Employee_Name |-> "Rocky Rajan Varughese", Department |-> "Procurement"],
    [Person_ID |-> Str(<<"T", "T", "Q", "2", "1", "9">>), Employee_ID |-> Str(<<"T", "T", "Q", "A", "2", "7", "2">>),
     Employee_Name |-> "Nawaz Shereef Kareem", Department |-> "Procurement"],
    [Person_ID |-> Str(<<"T", "T", "Q", "2", "7", "4">>), Employee_ID |-> Str(<<"T", "T", "Q", "A", "2", "7", "4">>),
     Employee_Name |-> "Burhan Mohammad Walid Alhaffar", Department |-> "Technical"],
    [Person_ID |-> Str(<<"T", "T", "Q", "2", "7", "5">>), Employee_ID |-> Str(<<"T", "T", "Q", "A", "2", "7", "5">>),
     Employee_Name |-> "Balagopal Venugopal Kanika", Department |-> "Procurement"],
    [Person_ID |-> Str(<<"T", "T", "Q", "2", "8", "1">>), Employee_ID |-> Str(<<"T", "T", "Q", "A", "2", "8", "1">>),
     Employee_Name |-> "Allwyn Solomon Rajit Singh", Department |-> "Support"],
    [Person_ID |-> Str(<<"T", "T", "Q", "2", "8", "5">>), Employee_ID |-> Str(<<"T", "T", "Q", "A", "2", "8", "5">>),
     Employee_Name |-> "Jino Jose", Department |-> "Design & Lighting"],
    [Person_ID |-> Str(<<"T", "T", "Q", "2", "8", "6">>), Employee_ID |-> Str(<<"T", "T", "Q", "A", "2", "8", "6">>),
     Employee_Name |-> "Anish Kumar Murugan", Department |-> "Technical"],
    [Person_ID |-> Str(<<"T", "T", "Q", "2", "8", "8">>), Employee_ID |-> Str(<<"T", "T", "Q", "A", "2", "8", "8">>),
     Employee_Name |-> "Zeeshan Ul Haq", Department |-> "Pre-Sales"],
    [Person_ID |-> Str(<<"T", "T", "Q", "2", "9", "8">>), Employee_ID |-> Str(<<"T", "T", "Q", "A", "2", "9", "8">>),
     Employee_Name |-> "Afsal Veluthandi Madathummal", Department |-> "Support"],
    [Person_ID |-> Str(<<"T", "T", "Q", "3", "0", "1">>), Employee_ID |-> Str(<<"T", "T", "Q", "A", "3", "0", "1">>),
     Employee_Name |-> "Aafaq Burhanuddin Tisekar", Department |-> "Human Resources and Admin."],
    [Person_ID |-> Str(<<"T", "T", "Q", "3", "0", "2">>), Employee_ID |-> Str(<<"T", "T", "Q", "A", "3", "0", "2">>),
     Employee_Name |-> "Anshad Kelathum Parambil", Department |-> "Finance and Accounts"],
    [Person_ID |-> Str(<<"T", "T", "Q", "A", "3", "0", "3">>), Employee_ID |-> Str(<<"T", "T", "Q", "A", "3", "0", "3">>),
     Employee_Name |-> "Le Mogene De la Paz Tucker", Department |-> "Human Resources and Admin."],
    [Person_ID |-> Str(<<"T", "T", "Q", "A", "3", "0", "4">>), Employee_ID |-> Str(<<"T", "T", "Q", "A", "3", "0", "4">>),
     Employee_Name |-> "Nihad El Harch", Department |-> "Sales"],
    [Person_ID |-> Str(<<"T", "T", "Q", "A", "3", "0", "8">>), Employee_ID |-> Str(<<"T", "T", "Q", "A", "3", "0", "8">>),
     Employee_Name |-> "Mohammad Mamoon Mohammad Haroon", Department |-> "Pre-Sales"],
    [Person_ID |-> Str(<<"T", "T", "Q", "A", "3", "0", "9">>), Employee_ID |-> Str(<<"T", "T", "Q", "A", "3", "0", "9">>),
     Employee_Name |-> "Tiago Andre Pereira Reis", Department |-> "Sales"],
    [Person_ID |-> Str(<<"T", "T", "Q", "A", "3", "1", "0">>), Employee_ID |-> Str(<<"T", "T", "Q", "A", "3", "1", "0">>),
     Employee_Name |-> "Akhil Thoppil Aliyar", Department |-> "Sales"],
    [Person_ID |-> Str(<<"T", "T", "Q", "A", "3", "1", "1">>), Employee_ID |-> Str(<<"T", "T", "Q", "A", "3", "1", "1">>),
     Employee_Name |-> "Mohammed Muzzammil Pradanakkaar", Department |-> "Sales"],
    [Person_ID |-> Str(<<"T", "T", "Q", "A", "3", "1", "2">>), Employee_ID |-> Str(<<"T", "T", "Q", "A", "3", "1", "2">>),
     Employee_Name |-> "Abdallah Mohammed Abdelhakem Elkady", Department |-> "Sales"],
    [Person_ID |-> Str(<<"T", "T", "Q", "A", "3", "1", "3">>), Employee_ID |-> Str(<<"T", "T", "Q", "A", "3", "1", "3">>),
     Employee_Name |-> "Mohammed Osman", Department |-> "Pre-Sales"],
    [Person_ID |-> NaN, Employee_ID |-> Str(<<"T", "T", "Q", "A", "3", "1", "4">>),
     Employee_Name |-> "Kamal Navas", Department |-> "Pre-Sales"],
    [Person_ID |-> NaN, Employee_ID |-> Str(<<"T", "T", "Q", "A", "3", "1", "6">>),
     Employee_Name |-> "Suhail Thayyil", Department |-> "HRA"]
>>

\* ---------------------------------------------------------------- state

VARIABLES
    pc,               \* position in the script / in the upload handler
    uploaded_file,    \* the uploaded CSV: a sequence of rows of field texts
    report_df,        \* the variable report_df (read, then cleaned)
    employee_mapping, \* dict Person ID -> details
    idx,              \* position of `for _, row in report_df.iterrows()`
    output_data,      \* list of output rows
    output_df,        \* sorted frame
    rendered,         \* Streamlit elements shown, in order
    exception,        \* the exception the top-level except caught, or "none"
    check_in, check_out, hours, hours_formatted, total_minutes, extra_minutes

vars == <<pc, uploaded_file, report_df, employee_mapping, idx, output_data,
          output_df, rendered, exception,
          check_in, check_out, hours, hours_formatted, total_minutes,
          extra_minutes>>

pipeline_vars == <<uploaded_file, report_df, employee_mapping, idx,
                   output_data, output_df, rendered, exception>>

time_vars == <<check_in, check_out, hours, hours_formatted, total_minutes,
               extra_minutes>>

Columns == {"Person_ID", "Date", "Check_In", "Check_out", "Attendance_Status"}

EmptyFrame == [dtype |-> [c \in Columns |-> "object"], rows |-> <<>>]

\* ------------------------------------------------------------- read_csv

IsNumericText(s) == s # <<>> /\ \A i \in 1..Len(s) : IsDigit(s[i])

\* pd.read_csv column inference: an empty field is a missing value; a
\* column whose present fields are all numbers (also one with no present
\* field at all) is a numeric column, any other column holds str objects.
ColumnDtype(csv, c) ==
    IF Len(csv) > 0
       /\ \A i \in 1..Len(csv) : csv[i][c] = <<>> \/ IsNumericText(csv[i][c])
    THEN "num" ELSE "object"

read_csv(csv) ==
    [dtype |-> [c \in Columns |-> ColumnDtype(csv, c)],
     rows  |-> [i \in 1..Len(csv) |->
                  [c \in Columns |->
                      IF csv[i][c] = <<>> THEN NaN
                      ELSE IF ColumnDtype(csv, c) = "num" THEN Num(csv[i][c])
                      ELSE Str(csv[i][c])]]]

\* ---------------------------------------------------- clean_report_data

HeaderToken == <<"C", "h", "e", "c", "k", "-", "I", "n", " ", "T", "i", "m", "e">>

\* the boolean mask of lines 18-24, for one row of an object column
IsValidRow(row) ==
    /\ notna(row.Person_ID)
    /\ (IsStr(row.Person_ID) => strip(row.Person_ID.v) # <<>>)
    /\ ~contains(astype_str(row.Person_ID), HeaderToken)
    /\ notna(row.Date)
    /\ (IsStr(row.Date) => strip(row.Date.v) # <<>>)

\* the .str accessor exists only on a column of str objects
HasStrAccessor(df, c) == df.dtype[c] = "object"

\* clean_report_data(report_df): raises AttributeError when Person ID or
\* Date is a numeric column, else returns the filtered, normalised frame
clean_report_data(df) ==
    IF ~HasStrAccessor(df, "Person_ID") \/ ~HasStrAccessor(df, "Date")
    THEN [raised |-> TRUE, df |-> df]
    ELSE [raised |-> FALSE,
          df |-> [dtype |-> df.dtype,
                  rows  |-> LET valid_rows == SelectSeq(df.rows, IsValidRow)
                            IN  [i \in 1..Len(valid_rows) |->
                                   [valid_rows[i] EXCEPT !.Person_ID =
                                      Str(replace_leading_apostrophe(
                                            astype_str(valid_rows[i].Person_ID)))]]]]

\* ----------------------------------------------------- employee_mapping

\* the key of a directory row (line 323), defined for rows that pass the
\* test of line 322
MappingKey(row) == strip(astype_str(row.Person_ID))

HasMappingKey(row) == notna(row.Person_ID) /\ MappingKey(row) # <<>>

\* lines 320-327: the dict after `for _, row in db_df.iterrows()`; an
\* assignment to a key already present overwrites it, so each key holds
\* the details of the last directory row that has it
BuildMapping(db) ==
    LET keyed == {n \in 1..Len(db) : HasMappingKey(db[n])}
        key == [n \in keyed |-> MappingKey(db[n])]
        last == [k \in {key[n] : n \in keyed} |->
                   CHOOSE n \in keyed :
                      key[n] = k /\ \A i \in keyed : key[i] = k => i <= n]
    IN  [k \in DOMAIN last |->
           [employee_id   |-> db[last[k]].Employee_ID,
            employee_name |-> db[last[k]].Employee_Name,
            department    |-> db[last[k]].Department]]

\* employee_mapping as built from the embedded directory, which is the
\* same on every run
DirectoryMapping == BuildMapping(db_df)

\* ------------------------------------------------------------ row build

Dash == Str(<<"-">>)

Blank == Str(<<>>)

\* lines 343-369: the output row of one matched report row
OutputRow(row, employee_details) ==
    LET res == calculate_hours(row.Check_In, row.Check_out)
    IN  [DATE              |-> row.Date,
         DAY               |-> get_day_of_week(row.Date),
         NEW_EMPLOYEE_NO   |-> employee_details.employee_id,
         EMPLOYEE_NAME     |-> employee_details.employee_name,
         DEPARTMENT_NAME   |-> employee_details.department,
         TIME_IN           |-> IF row.Check_In = Dash THEN Blank ELSE row.Check_In,
         TIME_OUT          |-> IF row.Check_out = Dash THEN Blank ELSE row.Check_out,
         TOTAL_HOURS       |-> res.fmt,
         ATTENDANCE_STATUS |-> row.Attendance_Status,
         EXTRA_MINUTES     |-> NatToStr(calculate_extra_minutes(
                                   calculate_total_minutes(res.hours))),
         NEW_INTIME        |-> Blank,
         NEW_OUTTIME       |-> Blank,
         NEW_TOTAL_HOURS   |-> Blank,
         OT_UT             |-> Blank,
         REMARKS           |-> Blank,
         REASON            |-> Blank,
         MANAGERS_COMMENTS |-> Blank]

\* ----------------------------------------------------------------- sort

Alphabet == <<" ", "'", "+", "-", "0", "1", "2", "3", "4", "5", "6", "7",
              "8", "9", ":", "A", "Q", "S", "T", "Z", "x">>

Ord(c) == CHOOSE i \in 1..Len(Alphabet) : Alphabet[i] = c

\* Python's str < str: by code point, a proper prefix is smaller
RECURSIVE StrLess(_, _)
StrLess(a, b) ==
    IF b = <<>> THEN FALSE
    ELSE IF a = <<>> THEN TRUE
    ELSE IF Head(a) # Head(b) THEN Ord(Head(a)) < Ord(Head(b))
    ELSE StrLess(Tail(a), Tail(b))

TsLess(s, t) ==
    \/ s.y < t.y
    \/ s.y = t.y /\ s.m < t.m
    \/ s.y = t.y /\ s.m = t.m /\ s.d < t.d

\* sort key order of sort_values(['NEW EMPLOYEE NO.'])
RowLess_by_employee_only(a, b) ==
    StrLess(a.NEW_EMPLOYEE_NO.v, b.NEW_EMPLOYEE_NO.v)

\* sort key order of sort_values(['NEW EMPLOYEE NO.', 'DATE']): employee
\* number, then the datetime with NaT last
RowLess(a, b) ==
    \/ StrLess(a.NEW_EMPLOYEE_NO.v, b.NEW_EMPLOYEE_NO.v)
    \/ /\ a.NEW_EMPLOYEE_NO = b.NEW_EMPLOYEE_NO
       /\ \/ ~a.DATE.nat /\ b.DATE.nat
          \/ ~a.DATE.nat /\ ~b.DATE.nat /\ TsLess(a.DATE, b.DATE)

\* stable insertion: r goes after every row that is not greater than it
RECURSIVE Insert(_, _)
Insert(sorted, r) ==
    IF sorted = <<>> THEN <<r>>
    ELSE IF RowLess(r, sorted[Len(sorted)])
         THEN Insert(SubSeq(sorted, 1, Len(sorted) - 1), r)
              \o <<sorted[Len(sorted)]>>
         ELSE sorted \o <<r>>

RECURSIVE sort_values(_)
sort_values(rows) ==
    IF rows = <<>> THEN <<>>
    ELSE Insert(sort_values(SubSeq(rows, 1, Len(rows) - 1)), rows[Len(rows)])

\* lines 374-379: parse DATE, sort, format DATE back
SortedFrame(data) ==
    LET parsed == [i \in 1..Len(data) |->
                     [data[i] EXCEPT !.DATE = ParseDate(data[i].DATE)]]
        sorted == sort_values(parsed)
    IN  [i \in 1..Len(sorted) |->
           [sorted[i] EXCEPT !.DATE = strftime(sorted[i].DATE)]]

\* --------------------------------------------------------------- inputs

MaxRows == 3

MaxMinute == 5

CsvRow(pid, date, cin, cout, status) ==
    [Person_ID |-> pid, Date |-> date, Check_In |-> cin, Check_out |-> cout,
     Attendance_Status |-> status]

TimeHM(h, m) == Fmt02d(h) \o <<":">> \o Fmt02d(m)

TimeHMS(h, m, s) == TimeHM(h, m) \o <<":">> \o Fmt02d(s)

Normal == <<"N", "o", "r", "m", "a", "l">>

Absence == <<"A", "b", "s", "e", "n", "c", "e">>

Jan03 == <<"2", "0", "2", "4", "-", "0", "1", "-", "0", "3">>

Jan04 == <<"2", "0", "2", "4", "-", "0", "1", "-", "0", "4">>

Jan05 == <<"2", "0", "2", "4", "-", "0", "1", "-", "0", "5">>

Dec31 == <<"2", "0", "2", "3", "-", "1", "2", "-", "3", "1">>

\* rows of an uploaded report.csv
RowChoices == {
    CsvRow(<<"S", "0", "0", "3">>, Jan05, TimeHM(9, 0), TimeHM(18, 0), Normal),
    CsvRow(<<"'", "S", "0", "0", "3">>, Jan03, TimeHMS(9, 0, 0), TimeHMS(18, 2, 40), Normal),
    CsvRow(<<"T", "T", "Q", "2", "1", "9">>, Jan05, TimeHM(9, 0), TimeHM(18, 0), Normal),
    CsvRow(<<"1", "0", "0", "0">>, Jan04, TimeHM(18, 0), TimeHM(9, 0), Normal),
    CsvRow(<<"Z", "Z", "9">>, Jan05, TimeHM(9, 0), TimeHM(18, 0), Normal),
    CsvRow(<<>>, Jan05, <<"-">>, <<"-">>, Absence),
    CsvRow(<<" ">>, Jan05, <<"-">>, <<"-">>, Absence),
    CsvRow(HeaderToken, <<"x">>, <<"x">>, <<"x">>, <<"x">>),
    CsvRow(<<"S", "0", "0", "3">>, <<>>, <<"-">>, <<"-">>, Absence),
    CsvRow(<<"S", "0", "0", "3">>, <<" ">>, <<"-">>, <<"-">>, Absence),
    CsvRow(<<" ", "S", "0", "0", "4", " ">>, Dec31, TimeHM(9, 0), TimeHMS(18, 3, 20), Normal),
    CsvRow(<<"S", "0", "0", "3">>, <<"x">>, TimeHM(9, 0), TimeHM(18, 0), Normal),
    CsvRow(<<"1", "0", "0", "0">>, <<>>, <<>>, <<>>, <<>>),
    CsvRow(<<"S", "0", "0", "4">>, Jan03, <<>>, <<>>, Normal)
}

Uploads == UNION {[1..n -> RowChoices] : n \in 0..MaxRows}

\* arguments that calculate_hours must reject
Malformed == {
    NaN, Num(<<"9">>), Blank, Dash,
    Str(<<"9">>), Str(<<"9", ":", "x">>), Str(<<"x", ":", "0", "0">>),
    Str(<<"0", "9", ":", "0", "0", ":", "x">>), Str(<<"0", "9", ":", "0", "0", ":">>),
    Str(<<":">>)
}

CheckIns ==
    {Str(TimeHM(9, 0)), Str(TimeHMS(0, 0, 0)), Str(TimeHMS(8, 30, 10)),
     Str(<<"9", ":", "0">>)} \cup Malformed

CheckOuts ==
    {Str(TimeHMS(h, m, s)) : h \in {8, 9, 18}, m \in 0..MaxMinute, s \in 0..59}
    \cup {Str(TimeHM(h, m)) : h \in {8, 9, 18}, m \in 0..MaxMinute}
    \cup Malformed

\* ----------------------------------------------------------------- Init

TimeIdle ==
    /\ check_in = NaN
    /\ check_out = NaN
    /\ hours = 0
    /\ hours_formatted = <<>>
    /\ total_minutes = 0
    /\ extra_minutes = 0

PipelineIdle ==
    /\ uploaded_file = <<>>
    /\ report_df = EmptyFrame
    /\ employee_mapping = << >>
    /\ idx = 1
    /\ output_data = <<>>
    /\ output_df = <<>>
    /\ rendered = <<>>
    /\ exception = "none"

\* the script runs with a file in the uploader
Init ==
    /\ pc = "read_csv"
    /\ uploaded_file \in Uploads
    /\ report_df = EmptyFrame
    /\ employee_mapping = << >>
    /\ idx = 1
    /\ output_data = <<>>
    /\ output_df = <<>>
    /\ rendered = <<>>
    /\ exception = "none"
    /\ TimeIdle

\* ---------------------------------------------------- the upload handler

Element(kind) == [kind |-> kind]

\* the top-level except: st.error(...)
Raise(exc) ==
    /\ pc' = "error"
    /\ exception' = exc
    /\ rendered' = Append(rendered, Element("error"))

\* lines 306-311
ReadCsv ==
    /\ pc = "read_csv"
    /\ report_df' = read_csv(uploaded_file)
    /\ rendered' = rendered \o <<Element("success"), Element("upload_preview")>>
    /\ pc' = "clean"
    /\ UNCHANGED <<uploaded_file, employee_mapping, idx, output_data,
                   output_df, exception>>
    /\ UNCHANGED time_vars

\* lines 314-317
Clean ==
    /\ pc = "clean"
    /\ LET res == clean_report_data(report_df)
       IN  IF res.raised
           THEN /\ Raise("AttributeError: .str accessor")
                /\ UNCHANGED report_df
           ELSE /\ report_df' = res.df
                /\ pc' = "mapping"
                /\ UNCHANGED <<rendered, exception>>
    /\ UNCHANGED <<uploaded_file, employee_mapping, idx, output_data, output_df>>
    /\ UNCHANGED time_vars

\* lines 320-330
Mapping ==
    /\ pc = "mapping"
    /\ employee_mapping' = DirectoryMapping
    /\ output_data' = <<>>
    /\ idx' = 1
    /\ pc' = "loop"
    /\ UNCHANGED <<uploaded_file, report_df, output_df, rendered, exception>>
    /\ UNCHANGED time_vars

person_id_of(row) == strip(astype_str(row.Person_ID))

\* lines 332-337: the row's Person ID is not in the mapping
LoopMiss ==
    /\ pc = "loop"
    /\ idx <= Len(report_df.rows)
    /\ person_id_of(report_df.rows[idx]) \notin DOMAIN employee_mapping
    /\ idx' = idx + 1
    /\ UNCHANGED <<pc, uploaded_file, report_df, employee_mapping, output_data,
                   output_df, rendered, exception>>
    /\ UNCHANGED time_vars

\* lines 332-371: the row's Person ID is in the mapping
LoopMatch ==
    /\ pc = "loop"
    /\ idx <= Len(report_df.rows)
    /\ person_id_of(report_df.rows[idx]) \in DOMAIN employee_mapping
    /\ output_data' = Append(output_data,
           OutputRow(report_df.rows[idx],
                     employee_mapping[person_id_of(report_df.rows[idx])]))
    /\ idx' = idx + 1
    /\ UNCHANGED <<pc, uploaded_file, report_df, employee_mapping, output_df,
                   rendered, exception>>
    /\ UNCHANGED time_vars

LoopEnd ==
    /\ pc = "loop"
    /\ idx > Len(report_df.rows)
    /\ pc' = "sort"
    /\ UNCHANGED pipeline_vars
    /\ UNCHANGED time_vars

\* lines 374-379: pd.DataFrame([]) has no columns, so output_df['DATE']
\* raises KeyError when no row matched
Sort ==
    /\ pc = "sort"
    /\ IF output_data = <<>>
       THEN /\ Raise("KeyError: 'DATE'")
            /\ UNCHANGED output_df
       ELSE /\ output_df' = SortedFrame(output_data)
            /\ pc' = "stats"
            /\ UNCHANGED <<rendered, exception>>
    /\ UNCHANGED <<uploaded_file, report_df, employee_mapping, idx, output_data>>
    /\ UNCHANGED time_vars

\* lines 382-386
Stats ==
    /\ pc = "stats"
    /\ rendered' = Append(rendered,
          [kind     |-> "statistics",
           total    |-> Len(report_df.rows),
           matched  |-> Len(output_data),
           employees |-> Cardinality({output_df[i].NEW_EMPLOYEE_NO :
                                        i \in 1..Len(output_df)})])
    /\ pc' = "preview"
    /\ UNCHANGED <<uploaded_file, report_df, employee_mapping, idx, output_data,
                   output_df, exception>>
    /\ UNCHANGED time_vars

\* lines 389-390
Preview ==
    /\ pc = "preview"
    /\ rendered' = Append(rendered,
          [kind |-> "report_preview",
           rows |-> SubSeq(output_df, 1, IF Len(output_df) < 10
                                         THEN Len(output_df) ELSE 10)])
    /\ pc' = "download"
    /\ UNCHANGED <<uploaded_file, report_df, employee_mapping, idx, output_data,
                   output_df, exception>>
    /\ UNCHANGED time_vars

\* lines 393-394, get_excel_download_link (105-219).  df.itertuples() builds
\* namedtuple(..., rename=True): the column 'NEW EMPLOYEE NO.' is not an
\* identifier and becomes the field _3, so row.NEW_EMPLOYEE_NO_ at line 158
\* raises AttributeError on the first row of the frame.
Download ==
    /\ pc = "download"
    /\ IF Len(output_df) > 0
       THEN Raise("AttributeError: NEW_EMPLOYEE_NO_")
       ELSE /\ rendered' = Append(rendered, Element("download_link"))
            /\ pc' = "done"
            /\ UNCHANGED exception
    /\ UNCHANGED <<uploaded_file, report_df, employee_mapping, idx, output_data,
                   output_df>>
    /\ UNCHANGED time_vars

Next ==
    \/ ReadCsv
    \/ Clean
    \/ Mapping
    \/ LoopMiss
    \/ LoopMatch
    \/ LoopEnd
    \/ Sort
    \/ Stats
    \/ Preview
    \/ Download

Spec == Init /\ [][Next]_vars

\* ------------------------------------- the time computation of one row

InitHours ==
    /\ pc = "calculate_hours"
    /\ check_in \in CheckIns
    /\ check_out \in CheckOuts
    /\ hours = 0
    /\ hours_formatted = <<>>
    /\ total_minutes = 0
    /\ extra_minutes = 0
    /\ PipelineIdle

\* line 346
CalculateHours ==
    /\ pc = "calculate_hours"
    /\ hours' = calculate_hours(check_in, check_out).hours
    /\ hours_formatted' = calculate_hours(check_in, check_out).fmt
    /\ pc' = "calculate_total_minutes"
    /\ UNCHANGED <<check_in, check_out, total_minutes, extra_minutes>>
    /\ UNCHANGED pipeline_vars

\* line 347
CalculateTotalMinutes ==
    /\ pc = "calculate_total_minutes"
    /\ total_minutes' = calculate_total_minutes(hours)
    /\ pc' = "calculate_extra_minutes"
    /\ UNCHANGED <<check_in, check_out, hours, hours_formatted, extra_minutes>>
    /\ UNCHANGED pipeline_vars

\* line 348
CalculateExtraMinutes ==
    /\ pc = "calculate_extra_minutes"
    /\ extra_minutes' = calculate_extra_minutes(total_minutes)
    /\ pc' = "row_done"
    /\ UNCHANGED <<check_in, check_out, hours, hours_formatted, total_minutes>>
    /\ UNCHANGED pipeline_vars

NextHours ==
    \/ CalculateHours
    \/ CalculateTotalMinutes
    \/ CalculateExtraMinutes

SpecHours == InitHours /\ [][NextHours]_vars

\* ------------------------------------------------------------ properties

Shown(kind) == \E i \in 1..Len(rendered) : rendered[i].kind = kind

StrAccessorError == "AttributeError: .str accessor"

\* the row loop has started (the sanitizer returned a frame)
LoopStarted ==
    \/ pc \in {"loop", "sort", "stats", "preview", "download", "done"}
    \/ pc = "error" /\ exception # StrAccessorError

\* the person identifiers the directory lists
DirectoryIds ==
    {strip(astype_str(db_df[n].Person_ID)) :
        n \in {k \in 1..Len(db_df) : notna(db_df[k].Person_ID)}}

\* what the sanitizer is to keep, read off the text of the uploaded row
KeepText(raw) ==
    /\ strip(raw.Person_ID) # <<>>
    /\ ~contains(raw.Person_ID, HeaderToken)
    /\ strip(raw.Date) # <<>>

\* an integer literal: optional sign, then digits, blanks around it ignored
IsIntegerText(s) ==
    LET u == strip(s)
        b == IF u # <<>> /\ Head(u) \in {"+", "-"} THEN Tail(u) ELSE u
    IN  b # <<>> /\ \A i \in 1..Len(b) : IsDigit(b[i])

\* a time of day H:M or H:M:S with one or two digits per field, in range
WellFormed(x) ==
    /\ IsStr(x)
    /\ LET p == split(x.v)
       IN  /\ Len(p) \in {2, 3}
           /\ \A i \in 1..Len(p) :
                 /\ Len(p[i]) \in {1, 2}
                 /\ \A k \in 1..Len(p[i]) : IsDigit(p[i][k])
           /\ DigitsVal(p[1]) <= 23
           /\ DigitsVal(p[2]) <= 59
           /\ Len(p) = 3 => DigitsVal(p[3]) <= 59

\* seconds since midnight of a well-formed time, a missing seconds field is 0
SecondsOf(x) ==
    LET p == split(x.v)
    IN  DigitsVal(p[1]) * 3600 + DigitsVal(p[2]) * 60
        + (IF Len(p) = 3 THEN DigitsVal(p[3]) ELSE 0)

Elapsed == SecondsOf(check_out) - SecondsOf(check_in)

\* an unsigned field of two or more digits
IsField(s) == Len(s) >= 2 /\ \A i \in 1..Len(s) : IsDigit(s[i])

\* the formatted duration has three unsigned fields, minutes and seconds
\* below 60
NonNegativeHMS(fmt) ==
    LET p == split(fmt)
    IN  /\ Len(p) = 3
        /\ \A i \in 1..3 : IsField(p[i])
        /\ Len(p[2]) = 2 /\ DigitsVal(p[2]) <= 59
        /\ Len(p[3]) = 2 /\ DigitsVal(p[3]) <= 59

HoursReturned == pc \in {"calculate_total_minutes", "calculate_extra_minutes", "row_done"}

\* C1: a sanitized row without a directory entry is left out of the output
\* and never makes the transform end in the top-level error: when sanitized
\* rows exist, none of them matching does not raise at the DATE sort.
C1_UnmatchedRowsRaiseNothing ==
    /\ LoopStarted =>
         \A k \in 1..Len(output_data) :
            \E n \in 1..Len(db_df) :
               output_data[k].NEW_EMPLOYEE_NO = db_df[n].Employee_ID
    /\ ~(/\ pc = "error"
         /\ exception = "KeyError: 'DATE'"
         /\ Len(report_df.rows) > 0
         /\ \A k \in 1..Len(report_df.rows) :
               person_id_of(report_df.rows[k]) \notin DirectoryIds)

\* C2: for well-formed check_in and check_out, whichever is later, the
\* formatted duration has an unsigned hour field of two or more digits and
\* minutes and seconds in 00..59.
C2_FieldsNonNegative ==
    (HoursReturned /\ WellFormed(check_in) /\ WellFormed(check_out))
        => NonNegativeHMS(hours_formatted)

\* C3: for well-formed times with check_out not earlier than check_in the
\* formatted duration is HH:MM:SS with HH*3600 + MM*60 + SS equal to the
\* difference in seconds, and the numeric hours are that difference divided
\* by 3600 rounded to two decimals (within half a hundredth of it);
\* ("09:00", "18:00") gives (9.0, "09:00:00").
C3_ElapsedExact ==
    (HoursReturned /\ WellFormed(check_in) /\ WellFormed(check_out) /\ Elapsed >= 0)
        => /\ NonNegativeHMS(hours_formatted)
           /\ LET p == split(hours_formatted)
              IN  DigitsVal(p[1]) * 3600 + DigitsVal(p[2]) * 60 + DigitsVal(p[3])
                    = Elapsed
           /\ 3600 * hours - 100 * Elapsed <= 1800
           /\ 100 * Elapsed - 3600 * hours <= 1800
           /\ (check_in = Str(TimeHM(9, 0)) /\ check_out = Str(TimeHM(18, 0)))
                 => /\ hours = 900
                    /\ hours_formatted = <<"0", "9", ":", "0", "0", ":", "0", "0">>

\* a difference whose hundredths of an hour had to be rounded up was
\* returned for well-formed times
C3_Witness ==
    /\ HoursReturned
    /\ WellFormed(check_in) /\ WellFormed(check_out)
    /\ Elapsed > 0
    /\ (100 * Elapsed) % 3600 > 1800
    /\ hours = (100 * Elapsed) \div 3600 + 1

\* an argument calculate_hours is to reject
Rejected(x) ==
    \/ ~IsStr(x)
    \/ x.v = <<>>
    \/ x.v = <<"-">>
    \/ Len(split(x.v)) < 2
    \/ \E i \in 1..3 : i <= Len(split(x.v)) /\ ~IsIntegerText(split(x.v)[i])

\* C4: calculate_hours returns exactly (0.0, "00:00:00") whenever either
\* argument is missing, the sentinel "-" or malformed.
C4_FailsSoft ==
    (HoursReturned /\ (Rejected(check_in) \/ Rejected(check_out)))
        => /\ hours = 0
           /\ hours_formatted = <<"0", "0", ":", "0", "0", ":", "0", "0">>

\* a well-formed check_out and a check_in with a non-integer field gave zero
C4_Witness ==
    /\ HoursReturned
    /\ WellFormed(check_out)
    /\ SecondsOf(check_out) > 0
    /\ IsStr(check_in)
    /\ Len(split(check_in.v)) >= 2
    /\ Rejected(check_in)
    /\ hours = 0

\* the date of a report row as a number, a missing date after every date
DateKey(x) ==
    IF x.t = "nan" THEN 100000000
    ELSE DigitsVal(SubSeq(x.v, 1, 4)) * 10000 + DigitsVal(SubSeq(x.v, 6, 7)) * 100
         + DigitsVal(SubSeq(x.v, 9, 10))

\* a row as it is to appear in the report: a date that does not parse is
\* missing
Dated(r) == [r EXCEPT !.DATE = IF ParseDate(r.DATE).nat THEN NaN ELSE r.DATE]

Count(seq, r) == Cardinality({i \in 1..Len(seq) : seq[i] = r})

EntriesOf(person_id) ==
    {n \in 1..Len(db_df) :
        /\ notna(db_df[n].Person_ID)
        /\ strip(astype_str(db_df[n].Person_ID)) = person_id}

\* C6: person identifier is a unique key of the directory: every report
\* row's identifier resolves to exactly one directory entry.
C6_PersonIdUniqueKey ==
    LoopStarted =>
        \A k \in 1..(idx - 1) :
           person_id_of(report_df.rows[k]) \in DOMAIN employee_mapping
              => Cardinality(EntriesOf(person_id_of(report_df.rows[k]))) = 1

CountIf(seq, n, P(_)) == Cardinality({i \in 1..n : P(seq[i])})

IsRejectedText(raw) == ~KeepText(raw)

IsMiss(row) == person_id_of(row) \notin DirectoryIds

IsHit(row) == person_id_of(row) \in DirectoryIds

\* the rows the sanitizer returned (none when it raised)
Sanitized == IF exception = StrAccessorError THEN <<>> ELSE report_df.rows

\* the sanitized rows the transform has accounted for: those the loop has
\* passed, and all of them once the transform has left the loop
Accounted == IF pc = "loop" THEN idx - 1 ELSE Len(Sanitized)

\* C7: for every input, rows in = matched + rejected by the sanitizer +
\* dropped on a directory miss (+ rows the loop has not reached yet), and
\* the report rows are, in order, exactly one per sanitized row that matched.
C7_RecordConservation ==
    pc \notin {"read_csv", "clean", "mapping"} =>
        /\ Len(uploaded_file)
             = Len(output_data)
               + CountIf(uploaded_file, Len(uploaded_file), IsRejectedText)
               + CountIf(Sanitized, Accounted, IsMiss)
               + (Len(Sanitized) - Accounted)
        /\ Len(output_data) = CountIf(Sanitized, Accounted, IsHit)
        /\ LET hits == SelectSeq(SubSeq(Sanitized, 1, Accounted), IsHit)
           IN  \A k \in 1..Len(output_data) :
                  /\ output_data[k].DATE = hits[k].Date
                  /\ output_data[k].ATTENDANCE_STATUS = hits[k].Attendance_Status
                  /\ \E n \in EntriesOf(person_id_of(hits[k])) :
                        output_data[k].NEW_EMPLOYEE_NO = db_df[n].Employee_ID

\* the frame the sanitizer is to return for the uploaded rows
RECURSIVE ExpectedClean(_)
ExpectedClean(csv) ==
    IF csv = <<>> THEN <<>>
    ELSE LET raw  == csv[Len(csv)]
             rest == ExpectedClean(SubSeq(csv, 1, Len(csv) - 1))
         IN  IF KeepText(raw)
             THEN Append(rest,
                    [c \in Columns |->
                        IF c = "Person_ID"
                        THEN Str(IF Head(raw.Person_ID) = "'"
                                 THEN Tail(raw.Person_ID) ELSE raw.Person_ID)
                        ELSE IF raw[c] = <<>> THEN NaN ELSE Str(raw[c])])
             ELSE rest

\* C8: clean_report_data keeps exactly the rows whose identifier and date
\* are present and non-blank after trimming and whose identifier does not
\* contain 'Check-In Time', in input order, with one leading apostrophe
\* removed from the identifier and every other field unchanged.
C8_CleanKeepsExactly ==
    pc \notin {"read_csv", "clean"} =>
        /\ exception # StrAccessorError
        /\ report_df.rows = ExpectedClean(uploaded_file)

\* C9: the transform ends in one of two outcomes, completed (statistics and
\* report rendered) or one error message, never both.
C9_CompleteXorError ==
    /\ ~(Shown("error") /\ Shown("statistics") /\ Shown("report_preview"))
    /\ Cardinality({i \in 1..Len(rendered) : rendered[i].kind = "error"}) <= 1
    /\ pc = "done" <=> Shown("download_link")

\* the extra minutes for an elapsed time of d seconds rounded to the minute
\* that is m
ExtraOf(m) == IF m > 540 THEN m - 540 ELSE 0

\* C10: for well-formed times with check_out not earlier than check_in,
\* EXTRA MINUTES is max(0, T - 540) with T the elapsed minutes rounded to the
\* nearest whole minute (either neighbour on an exact half minute).
C10_ExtraMinutesExact ==
    (pc = "row_done" /\ WellFormed(check_in) /\ WellFormed(check_out) /\ Elapsed >= 0)
        => \/ extra_minutes = ExtraOf((Elapsed + 30) \div 60)
           \/ Elapsed % 60 = 30 /\ extra_minutes = ExtraOf(Elapsed \div 60)

====
